---- MODULE Spec2Model ----
(***************************************************************************)
(* A model of ip_blocker.py: a command-line tool that keeps a JSON-backed  *)
(* list of blocked IP addresses and mirrors every add/remove with a ufw    *)
(* command.                                                                *)
(*                                                                         *)
(* Strings are sequences of one-character strings, so that validation,     *)
(* splitting and stripping are computed character by character.            *)
(* Every invocation of the program is a process: it loads the backing      *)
(* file, dispatches on its sub-command, and exits.                         *)
(***************************************************************************)
EXTENDS Integers, Sequences, FiniteSets, TLC

\* Number of invocation slots (processes that may be alive at once).
NumProcs == 2

Procs == 1..NumProcs

----------------------------------------------------------------------------
(* Character-level helpers (Python str methods).                           *)

Front(s) == SubSeq(s, 1, Len(s) - 1)

Contains(s, c) == \E i \in 1..Len(s) : s[i] = c

\* str.find: index of the first occurrence (1-based), 0 when absent
Find(s, c) ==
    IF Contains(s, c)
    THEN CHOOSE i \in 1..Len(s) : s[i] = c /\ \A j \in 1..(i - 1) : s[j] # c
    ELSE 0

\* str.split(sep) for a one-character separator: always at least one part
RECURSIVE Split(_, _)
Split(s, sep) ==
    LET i == Find(s, sep)
    IN  IF i = 0 THEN <<s>>
        ELSE <<SubSeq(s, 1, i - 1)>> \o Split(SubSeq(s, i + 1, Len(s)), sep)

Whitespace == {" ", "\n", "\t", "\r"}

\* str.strip(): leading and trailing whitespace removed
RECURSIVE Strip(_)
Strip(s) ==
    IF s = <<>> THEN s
    ELSE IF s[1] \in Whitespace THEN Strip(Tail(s))
    ELSE IF s[Len(s)] \in Whitespace THEN Strip(Front(s))
    ELSE s

LowerHex == <<"0","1","2","3","4","5","6","7","8","9","a","b","c","d","e","f">>
UpperHex == <<"0","1","2","3","4","5","6","7","8","9","A","B","C","D","E","F">>

DecDigits == {LowerHex[i] : i \in 1..10}
HexDigits == {LowerHex[i] : i \in 1..16} \cup {UpperHex[i] : i \in 1..16}

DigitVal(c) ==
    IF \E i \in 1..16 : LowerHex[i] = c
    THEN (CHOOSE i \in 1..16 : LowerHex[i] = c) - 1
    ELSE (CHOOSE i \in 1..16 : UpperHex[i] = c) - 1

\* int(s, base) for a non-empty string of legal digits
RECURSIVE ParseInt(_, _)
ParseInt(s, base) ==
    IF s = <<>> THEN 0
    ELSE ParseInt(Front(s), base) * base + DigitVal(s[Len(s)])

\* '%x' % n
RECURSIVE ToHex(_)
ToHex(n) ==
    IF n < 16 THEN <<LowerHex[n + 1]>>
    ELSE ToHex(n \div 16) \o <<LowerHex[(n % 16) + 1]>>

----------------------------------------------------------------------------
(* ipaddress.ip_address, as validate_ip calls it.  An address is a record  *)
(* of its version, its words (4 octets or 8 hextets) and its scope id;     *)
(* version 0 stands for the ValueError raised on a malformed string.       *)

Invalid == [version |-> 0, words |-> <<>>, scope |-> <<>>]

\* IPv4Address._parse_octet, the range check after the conversion:
\* -1 stands for ValueError
octet_checked(octet_int) ==
    IF octet_int > 255 THEN -1 ELSE octet_int

\* IPv4Address._parse_octet
parse_octet(o) ==
    IF o = <<>> THEN -1
    ELSE IF \E i \in 1..Len(o) : o[i] \notin DecDigits THEN -1
    ELSE IF Len(o) > 3 THEN -1
    ELSE IF o # <<"0">> /\ o[1] = "0" THEN -1
    ELSE octet_checked(ParseInt(o, 10))

\* IPv4Address._ip_int_from_string, once the octets are parsed
ip4_from_octets(words) ==
    IF \E i \in 1..4 : words[i] = -1 THEN Invalid
    ELSE [version |-> 4, words |-> words, scope |-> <<>>]

\* IPv4Address._ip_int_from_string, once the string is split at '.'
ip4_from_parts(octets) ==
    IF Len(octets) # 4 THEN Invalid
    ELSE ip4_from_octets([i \in 1..4 |-> parse_octet(octets[i])])

\* IPv4Address(s)
IPv4Address(s) ==
    IF Contains(s, "/") THEN Invalid
    ELSE IF s = <<>> THEN Invalid
    ELSE ip4_from_parts(Split(s, "."))

\* IPv6Address._parse_hextet: -1 stands for ValueError
parse_hextet(h) ==
    IF \E i \in 1..Len(h) : h[i] \notin HexDigits THEN -1
    ELSE IF Len(h) > 4 THEN -1
    ELSE IF h = <<>> THEN -1
    ELSE ParseInt(h, 16)

HEXTET_COUNT == 8

\* IPv6Address._ip_int_from_string, the part after a '::' was found at
\* skip_index (0-based): hextet[i] is parts[i] parsed, <<>> stands for
\* AddressValueError
ip6_skipped(parts, hextet, skip_index) ==
    LET n  == Len(parts)
        parts_hi == IF parts[1] = <<>> THEN skip_index - 1 ELSE skip_index
        parts_lo == IF parts[n] = <<>> THEN n - skip_index - 2
                    ELSE n - skip_index - 1
        parts_skipped == HEXTET_COUNT - (parts_hi + parts_lo)
    IN  IF parts[1] = <<>> /\ parts_hi # 0 THEN <<>>
        ELSE IF parts[n] = <<>> /\ parts_lo # 0 THEN <<>>
        ELSE IF parts_skipped < 1 THEN <<>>
        ELSE IF \E i \in 1..parts_hi : hextet[i] = -1 THEN <<>>
        ELSE IF \E i \in (n - parts_lo + 1)..n : hextet[i] = -1 THEN <<>>
        ELSE [i \in 1..parts_hi |-> hextet[i]]
             \o [i \in 1..parts_skipped |-> 0]
             \o [i \in 1..parts_lo |-> hextet[n - parts_lo + i]]

\* IPv6Address._ip_int_from_string, from the search for '::' on: skips are
\* the empty parts between the endpoints
ip6_assemble(parts, hextet, skips) ==
    IF Cardinality(skips) > 1 THEN <<>>
    ELSE IF skips # {}
    THEN ip6_skipped(parts, hextet, (CHOOSE i \in skips : TRUE) - 1)
    ELSE IF Len(parts) # HEXTET_COUNT THEN <<>>
    ELSE IF parts[1] = <<>> \/ parts[Len(parts)] = <<>> THEN <<>>
    ELSE IF \E i \in 1..Len(parts) : hextet[i] = -1 THEN <<>>
    ELSE hextet

\* IPv6Address._ip_int_from_string, from the check of the number of parts on
ip6_from_hextets(parts) ==
    IF Len(parts) > HEXTET_COUNT + 1 THEN <<>>
    ELSE ip6_assemble(parts,
                      [i \in 1..Len(parts) |-> parse_hextet(parts[i])],
                      {i \in 2..(Len(parts) - 1) : parts[i] = <<>>})

\* IPv6Address._ip_int_from_string: an IPv4-style suffix v4 becomes two hextets
ip6_with_suffix(parts, v4) ==
    IF v4 = Invalid THEN <<>>
    ELSE ip6_from_hextets(Front(parts)
                          \o <<ToHex(v4.words[1] * 256 + v4.words[2]),
                               ToHex(v4.words[3] * 256 + v4.words[4])>>)

\* IPv6Address._ip_int_from_string, once the string is split at ':'
ip6_from_parts(parts) ==
    IF Len(parts) < 3 THEN <<>>
    ELSE IF Contains(parts[Len(parts)], ".")
    THEN ip6_with_suffix(parts, IPv4Address(parts[Len(parts)]))
    ELSE ip6_from_hextets(parts)

\* IPv6Address._ip_int_from_string, the address kept as its 8 hextets
ip6_words(ip_str) ==
    IF ip_str = <<>> THEN <<>>
    ELSE ip6_from_parts(Split(ip_str, ":"))

\* IPv6Address.__init__, once the address and the scope id are split
ip6_scoped(words, scope_id) ==
    IF words = <<>> THEN Invalid
    ELSE [version |-> 6, words |-> words, scope |-> scope_id]

\* IPv6Address._split_scope_id and __init__: k is where the first '%' stands
ip6_split_scope(s, k) ==
    IF k = 0 THEN ip6_scoped(ip6_words(s), <<>>)
    ELSE IF k = Len(s) \/ Contains(SubSeq(s, k + 1, Len(s)), "%") THEN Invalid
    ELSE ip6_scoped(ip6_words(SubSeq(s, 1, k - 1)), SubSeq(s, k + 1, Len(s)))

\* IPv6Address(s): '/' refused, the scope id split off at the first '%'
IPv6Address(s) ==
    IF Contains(s, "/") THEN Invalid
    ELSE ip6_split_scope(s, Find(s, "%"))

\* ipaddress.ip_address, the IPv4 attempt made: IPv6 is tried when it failed
ip_address_after_v4(s, v4) ==
    IF v4 # Invalid THEN v4 ELSE IPv6Address(s)

\* ipaddress.ip_address: IPv4 first, then IPv6, else ValueError
ip_address(s) == ip_address_after_v4(s, IPv4Address(s))

\* Mutant of validate_ip: the ValueError is swallowed and True returned
validate_ip_accept_all(ip) == TRUE

\* IPBlocker.validate_ip
validate_ip(ip) == ip_address(ip) # Invalid

----------------------------------------------------------------------------
(* Inputs.                                                                 *)

IP_V4      == <<"1","0",".","0",".","0",".","5">>
IP_V6      == <<":",":","1">>
IP_V6_LONG == <<"0",":",":","1">>                       \* the same address as IP_V6
NOT_AN_IP  == <<"n","o","t","-","a","n","-","i","p">>
CIDR       == <<"1","0",".","0",".","0",".","0","/","8">>
HOSTNAME   == <<"h","o","s","t",".","l","a","n">>
EMPTY      == <<>>

\* The <ip> argument of add, remove and check
Args == {IP_V4, IP_V6, IP_V6_LONG, NOT_AN_IP, CIDR, HOSTNAME, EMPTY}

ValidArgs == {a \in Args : validate_ip(a)}

\* args.command: the four sub-commands, or none given
Commands == {"add", "remove", "check", "list", "none"}

\* os.geteuid(): 0 is root
Euids == {0, 1000}

\* What the ufw child process writes to its standard error when it fails
Stderrs == { <<"E","R","R","O","R","\n">>, <<" ","b","a","d"," ","\n">> }

\* How subprocess.run ends: exit status 0, a non-zero exit status
\* (CalledProcessError carrying stderr), or the executable cannot be started
UfwResults ==
    {[rc |-> 0, stderr |-> <<>>, spawned |-> TRUE]}
    \cup {[rc |-> 1, stderr |-> e, spawned |-> TRUE] : e \in Stderrs}
    \cup {[rc |-> -1, stderr |-> <<>>, spawned |-> FALSE]}

\* How open(file, 'w') + json.dump + close end: written in full; open refused
\* (the file is untouched); or a write error after open truncated the file
SaveResults == {"ok", "open_failed", "write_failed"}

----------------------------------------------------------------------------
(* State.                                                                  *)

VARIABLES
    file,       \* the backing file blocklist.json: absent, a JSON list, or not JSON
    pc,         \* where each invocation stands
    cmd,        \* args.command of each invocation
    arg,        \* args.ip of each invocation
    euid,       \* os.geteuid() of each invocation
    blocklist,  \* self.blocklist of each invocation
    effects,    \* what each invocation did to the outside: file writes, ufw calls
    outcome,    \* what each invocation reported: its message and diagnostic text
    lastOp      \* history: per address string, the last add/remove that ran through

vars == <<file, pc, cmd, arg, euid, blocklist, effects, outcome, lastOp>>

NoFile      == [kind |-> "absent",  data |-> <<>>]
CorruptFile == [kind |-> "corrupt", data |-> <<>>]
ListFile(l) == [kind |-> "list",    data |-> l]

NoOutcome == [msg |-> "", text |-> <<>>]
Report(m, t) == [msg |-> m, text |-> t]

\* ip in self.blocklist
InList(ip, l) == \E i \in 1..Len(l) : l[i] = ip

\* Mutant of ListRemove: the last entry is dropped (list.pop()) whatever ip is
ListRemoveLast(l, ip) == SubSeq(l, 1, Len(l) - 1)

\* list.remove(ip): the first occurrence is removed
ListRemove(l, ip) ==
    LET i == CHOOSE k \in 1..Len(l) : l[k] = ip /\ \A j \in 1..(k - 1) : l[j] # ip
    IN  SubSeq(l, 1, i - 1) \o SubSeq(l, i + 1, Len(l))

Init ==
    /\ file = NoFile
    /\ pc = [p \in Procs |-> "idle"]
    /\ cmd = [p \in Procs |-> "none"]
    /\ arg = [p \in Procs |-> <<>>]
    /\ euid = [p \in Procs |-> 0]
    /\ blocklist = [p \in Procs |-> <<>>]
    /\ effects = [p \in Procs |-> <<>>]
    /\ outcome = [p \in Procs |-> NoOutcome]
    /\ lastOp = [a \in ValidArgs |-> "none"]

----------------------------------------------------------------------------
(* One invocation of the program.                                          *)

\* The operator starts the program: argparse fixes the command and its argument
Invoke(p) ==
    /\ pc[p] = "idle"
    /\ \E c \in Commands, a \in Args, u \in Euids :
         /\ c \in {"list", "none"} => a = <<>>
         /\ cmd' = [cmd EXCEPT ![p] = c]
         /\ arg' = [arg EXCEPT ![p] = a]
         /\ euid' = [euid EXCEPT ![p] = u]
    /\ pc' = [pc EXCEPT ![p] = "load"]
    /\ UNCHANGED <<file, blocklist, effects, outcome, lastOp>>

\* IPBlocker.__init__ -> load_blocklist: the list of the file, [] when there
\* is no file; json.load raises on anything else and the process dies
load_blocklist(p) ==
    /\ pc[p] = "load"
    /\ IF file.kind = "corrupt"
       THEN /\ pc' = [pc EXCEPT ![p] = "done"]
            /\ outcome' = [outcome EXCEPT ![p] = Report("JSONDecodeError", <<>>)]
            /\ UNCHANGED blocklist
       ELSE /\ pc' = [pc EXCEPT ![p] = "main"]
            /\ blocklist' = [blocklist EXCEPT ![p] = file.data]
            /\ UNCHANGED outcome
    /\ UNCHANGED <<file, cmd, arg, euid, effects, lastOp>>

\* Mutant of check_root: the error is reported but sys.exit is not called
check_root_warn_only(p) ==
    /\ pc[p] = "main"
    /\ cmd[p] \in {"add", "remove"}
    /\ pc' = [pc EXCEPT ![p] = "op"]
    /\ UNCHANGED <<file, cmd, arg, euid, blocklist, effects, outcome, lastOp>>

\* main, add/remove branch -> check_root: sys.exit unless the effective uid is 0
check_root(p) ==
    /\ pc[p] = "main"
    /\ cmd[p] \in {"add", "remove"}
    /\ IF euid[p] # 0
       THEN /\ pc' = [pc EXCEPT ![p] = "done"]
            /\ outcome' = [outcome EXCEPT ![p] = Report("must be run as root", <<>>)]
       ELSE /\ pc' = [pc EXCEPT ![p] = "op"]
            /\ UNCHANGED outcome
    /\ UNCHANGED <<file, cmd, arg, euid, blocklist, effects, lastOp>>

\* Mutant of add_ip: the test `ip in self.blocklist` is missing
add_ip_no_membership_test(p) ==
    /\ pc[p] = "op"
    /\ cmd[p] = "add"
    /\ IF ~(ip_address(arg[p]) # Invalid)
       THEN /\ pc' = [pc EXCEPT ![p] = "done"]
            /\ outcome' = [outcome EXCEPT ![p] = [msg |-> "Invalid IP address", text |-> arg[p]]]
            /\ UNCHANGED blocklist
       ELSE /\ blocklist' = [blocklist EXCEPT ![p] = Append(@, arg[p])]
            /\ pc' = [pc EXCEPT ![p] = "save"]
            /\ UNCHANGED outcome
    /\ UNCHANGED <<file, cmd, arg, euid, effects, lastOp>>

\* add_ip up to the call of save_blocklist
add_ip(p) ==
    /\ pc[p] = "op"
    /\ cmd[p] = "add"
    /\ IF ~validate_ip(arg[p])
       THEN /\ pc' = [pc EXCEPT ![p] = "done"]
            /\ outcome' = [outcome EXCEPT ![p] = Report("Invalid IP address", arg[p])]
            /\ UNCHANGED <<blocklist, lastOp>>
       ELSE IF InList(arg[p], blocklist[p])
       THEN /\ pc' = [pc EXCEPT ![p] = "done"]
            /\ outcome' = [outcome EXCEPT ![p] = Report("is already in the blocklist", arg[p])]
            /\ lastOp' = [lastOp EXCEPT ![arg[p]] = "add"]
            /\ UNCHANGED blocklist
       ELSE /\ blocklist' = [blocklist EXCEPT ![p] = Append(@, arg[p])]
            /\ pc' = [pc EXCEPT ![p] = "save"]
            /\ UNCHANGED <<outcome, lastOp>>
    /\ UNCHANGED <<file, cmd, arg, euid, effects>>

\* remove_ip up to the call of save_blocklist
remove_ip(p) ==
    /\ pc[p] = "op"
    /\ cmd[p] = "remove"
    /\ IF ~validate_ip(arg[p])
       THEN /\ pc' = [pc EXCEPT ![p] = "done"]
            /\ outcome' = [outcome EXCEPT ![p] = Report("Invalid IP address", arg[p])]
            /\ UNCHANGED <<blocklist, lastOp>>
       ELSE IF ~InList(arg[p], blocklist[p])
       THEN /\ pc' = [pc EXCEPT ![p] = "done"]
            /\ outcome' = [outcome EXCEPT ![p] = Report("is not in the blocklist", arg[p])]
            /\ lastOp' = [lastOp EXCEPT ![arg[p]] = "remove"]
            /\ UNCHANGED blocklist
       ELSE /\ blocklist' = [blocklist EXCEPT ![p] = ListRemove(@, arg[p])]
            /\ pc' = [pc EXCEPT ![p] = "save"]
            /\ UNCHANGED <<outcome, lastOp>>
    /\ UNCHANGED <<file, cmd, arg, euid, effects>>

WriteEffect(r) == [op |-> "write", argv |-> <<>>, res |-> r]

\* Mutant of Written: the entries of the file that the list lacks are kept
\* (the list is merged into the file instead of replacing it)
Written_merged(l, r) ==
    CASE r = "ok"           ->
            ListFile(l \o SelectSeq(file.data, LAMBDA x : ~InList(x, l)))
      [] r = "open_failed"  -> file
      [] r = "write_failed" -> CorruptFile

\* The file after open(file, 'w'), json.dump(l) and close ended as r
Written(l, r) ==
    CASE r = "ok"           -> ListFile(l)
      [] r = "open_failed"  -> file
      [] r = "write_failed" -> CorruptFile

\* Mutant of save_blocklist: the OSError is caught and add_ip / remove_ip go on
save_blocklist_errors_swallowed(p) ==
    /\ pc[p] = "save"
    /\ \E r \in SaveResults :
         /\ file' = IF r = "ok" THEN ListFile(blocklist[p])
                    ELSE IF r = "open_failed" THEN file ELSE CorruptFile
         /\ effects' = [effects EXCEPT ![p] = Append(@, WriteEffect(r))]
    /\ pc' = [pc EXCEPT ![p] = "ufw"]
    /\ UNCHANGED <<cmd, arg, euid, blocklist, outcome, lastOp>>

\* save_blocklist: the file is opened for writing (truncated), the whole list
\* is dumped; an OSError is not caught anywhere and ends the process
save_blocklist(p) ==
    /\ pc[p] = "save"
    /\ \E r \in SaveResults :
         /\ file' = Written(blocklist[p], r)
         /\ effects' = [effects EXCEPT ![p] = Append(@, WriteEffect(r))]
         /\ IF r = "ok"
            THEN /\ pc' = [pc EXCEPT ![p] = "ufw"]
                 /\ UNCHANGED outcome
            ELSE /\ pc' = [pc EXCEPT ![p] = "done"]
                 /\ outcome' = [outcome EXCEPT ![p] = Report("OSError", <<>>)]
    /\ UNCHANGED <<cmd, arg, euid, blocklist, lastOp>>

\* The command line handed to subprocess.run
UfwArgv(c, ip) ==
    IF c = "add" THEN <<"ufw", "deny", "from", ip>>
    ELSE <<"ufw", "--force", "delete", "deny", "from", ip>>

\* What add_ip / remove_ip report after subprocess.run ended as r
UfwReport(c, ip, r) ==
    IF ~r.spawned THEN Report("FileNotFoundError", <<>>)
    ELSE IF r.rc = 0
    THEN Report(IF c = "add" THEN "has been blocked" ELSE "has been unblocked", ip)
    ELSE Report(IF c = "add" THEN "Failed to block IP" ELSE "Failed to unblock IP",
                Strip(r.stderr))

\* Mutant of run_ufw: a failed command undoes the change of the list
run_ufw_rollback(p) ==
    /\ pc[p] = "ufw"
    /\ \E r \in UfwResults :
         /\ effects' = [effects EXCEPT ![p] =
                Append(@, [op |-> "ufw", argv |-> UfwArgv(cmd[p], arg[p]), res |-> r])]
         /\ outcome' = [outcome EXCEPT ![p] = UfwReport(cmd[p], arg[p], r)]
         /\ file' = IF r.spawned /\ r.rc # 0
                    THEN ListFile(IF cmd[p] = "add"
                                  THEN SubSeq(blocklist[p], 1, Len(blocklist[p]) - 1)
                                  ELSE Append(blocklist[p], arg[p]))
                    ELSE file
    /\ lastOp' = [lastOp EXCEPT ![arg[p]] = cmd[p]]
    /\ pc' = [pc EXCEPT ![p] = "done"]
    /\ UNCHANGED <<cmd, arg, euid, blocklist>>

\* Mutant of run_ufw: a failed command is run a second time
run_ufw_retry(p) ==
    /\ pc[p] = "ufw"
    /\ \E r \in UfwResults :
         /\ effects' = [effects EXCEPT ![p] =
                IF r.spawned /\ r.rc # 0
                THEN @ \o <<[op |-> "ufw", argv |-> UfwArgv(cmd[p], arg[p]), res |-> r],
                            [op |-> "ufw", argv |-> UfwArgv(cmd[p], arg[p]), res |-> r]>>
                ELSE Append(@, [op |-> "ufw", argv |-> UfwArgv(cmd[p], arg[p]), res |-> r])]
         /\ outcome' = [outcome EXCEPT ![p] = UfwReport(cmd[p], arg[p], r)]
    /\ lastOp' = [lastOp EXCEPT ![arg[p]] = cmd[p]]
    /\ pc' = [pc EXCEPT ![p] = "done"]
    /\ UNCHANGED <<file, cmd, arg, euid, blocklist>>

\* The rest of add_ip / remove_ip: one subprocess.run, its result reported
run_ufw(p) ==
    /\ pc[p] = "ufw"
    /\ \E r \in UfwResults :
         /\ effects' = [effects EXCEPT ![p] =
                Append(@, [op |-> "ufw", argv |-> UfwArgv(cmd[p], arg[p]), res |-> r])]
         /\ outcome' = [outcome EXCEPT ![p] = UfwReport(cmd[p], arg[p], r)]
    /\ lastOp' = [lastOp EXCEPT ![arg[p]] = cmd[p]]
    /\ pc' = [pc EXCEPT ![p] = "done"]
    /\ UNCHANGED <<file, cmd, arg, euid, blocklist>>

\* main, check branch -> check_ip
check_ip(p) ==
    /\ pc[p] = "main"
    /\ cmd[p] = "check"
    /\ outcome' = [outcome EXCEPT ![p] =
          IF ~validate_ip(arg[p]) THEN Report("Invalid IP address", arg[p])
          ELSE IF InList(arg[p], blocklist[p]) THEN Report("is in the blocklist", arg[p])
          ELSE Report("is not in the blocklist", arg[p])]
    /\ pc' = [pc EXCEPT ![p] = "done"]
    /\ UNCHANGED <<file, cmd, arg, euid, blocklist, effects, lastOp>>

\* main, list branch -> list_ips
list_ips(p) ==
    /\ pc[p] = "main"
    /\ cmd[p] = "list"
    /\ outcome' = [outcome EXCEPT ![p] =
          IF blocklist[p] # <<>> THEN Report("Blocked IPs:", blocklist[p])
          ELSE Report("Blocklist is empty.", <<>>)]
    /\ pc' = [pc EXCEPT ![p] = "done"]
    /\ UNCHANGED <<file, cmd, arg, euid, blocklist, effects, lastOp>>

\* main, no sub-command: parser.print_help()
print_help(p) ==
    /\ pc[p] = "main"
    /\ cmd[p] = "none"
    /\ outcome' = [outcome EXCEPT ![p] = Report("usage", <<>>)]
    /\ pc' = [pc EXCEPT ![p] = "done"]
    /\ UNCHANGED <<file, cmd, arg, euid, blocklist, effects, lastOp>>

\* The process is gone; only the file stays behind
Exit(p) ==
    /\ pc[p] = "done"
    /\ pc' = [pc EXCEPT ![p] = "idle"]
    /\ cmd' = [cmd EXCEPT ![p] = "none"]
    /\ arg' = [arg EXCEPT ![p] = <<>>]
    /\ euid' = [euid EXCEPT ![p] = 0]
    /\ blocklist' = [blocklist EXCEPT ![p] = <<>>]
    /\ effects' = [effects EXCEPT ![p] = <<>>]
    /\ outcome' = [outcome EXCEPT ![p] = NoOutcome]
    /\ UNCHANGED <<file, lastOp>>

\* A step of a started invocation
Run(p) ==
    \/ load_blocklist(p)
    \/ check_root(p)
    \/ add_ip(p)
    \/ remove_ip(p)
    \/ save_blocklist(p)
    \/ run_ufw(p)
    \/ check_ip(p)
    \/ list_ips(p)
    \/ print_help(p)
    \/ Exit(p)

\* Invocations one after the other: a new one starts when no other is alive
InvokeAlone(p) ==
    /\ \A q \in Procs : pc[q] = "idle"
    /\ Invoke(p)

Next == \E p \in Procs : InvokeAlone(p) \/ Run(p)

Spec == Init /\ [][Next]_vars

\* Operators change the list at the same time: every slot runs one root
\* invocation of add or remove with a well-formed address, and the steps of
\* the invocations interleave
InvokeMutating(p) ==
    /\ Invoke(p)
    /\ cmd'[p] \in {"add", "remove"}
    /\ euid'[p] = 0
    /\ validate_ip(arg'[p])

RunMutating(p) ==
    \/ load_blocklist(p)
    \/ check_root(p)
    \/ add_ip(p)
    \/ remove_ip(p)
    \/ save_blocklist(p)
    \/ run_ufw(p)

NextConc == \E p \in Procs : InvokeMutating(p) \/ RunMutating(p)

SpecConc == Init /\ [][NextConc]_vars

----------------------------------------------------------------------------
(* Properties.                                                             *)

Count(ip, l) == Cardinality({i \in 1..Len(l) : l[i] = ip})

NoDuplicates(l) == \A i, j \in 1..Len(l) : l[i] = l[j] => i = j

Done(p) == pc[p] = "done"

\* The invocation got as far as its sub-command: the file could be loaded
Loaded(p) == outcome[p].msg # "JSONDecodeError"

\* add_ip returned: the address was added, or was there already
AddReturned(p) ==
    /\ Done(p) /\ cmd[p] = "add"
    /\ outcome[p].msg \in {"has been blocked", "is already in the blocklist",
                           "Failed to block IP"}

UfwCalls(p) == {i \in 1..Len(effects[p]) : effects[p][i].op = "ufw"}

FailedWrites(p) ==
    {i \in 1..Len(effects[p]) : effects[p][i].op = "write" /\ effects[p][i].res # "ok"}

\* The strings of the inputs that are no IPv4 or IPv6 address
Malformed == {NOT_AN_IP, CIDR, HOSTNAME, EMPTY}

\* C1: with invocations run one after the other from an empty file, the
\* persisted list never holds an address twice; after an add that returned
\* (also a second add of the same address) it holds that address exactly once.
C1_PersistedListHasNoDuplicates ==
    /\ file.kind = "list" => NoDuplicates(file.data)
    /\ \A p \in Procs :
         AddReturned(p) => file.kind = "list" /\ Count(arg[p], file.data) = 1

\* C1 witness: a second add of an address: it is reported as already in the
\* list, which holds other entries too.
C1_Witness ==
    \E p \in Procs :
        /\ Done(p) /\ cmd[p] = "add"
        /\ outcome[p].msg = "is already in the blocklist"
        /\ Len(file.data) >= 2

\* C2: with invocations run one after the other from an empty list, a check
\* of a valid address reports it in the blocklist exactly when the last add or
\* remove of that address that ran through was an add, whatever the firewall
\* command returned.
C2_CheckReflectsLastAddOrRemove ==
    \A p \in Procs :
        (Done(p) /\ cmd[p] = "check" /\ arg[p] \in ValidArgs /\ Loaded(p)) =>
            outcome[p] = Report(IF lastOp[arg[p]] = "add"
                                THEN "is in the blocklist"
                                ELSE "is not in the blocklist", arg[p])

\* C2 witness: an address was added, then removed, then checked while
\* another address is still listed.
C2_Witness ==
    \E p \in Procs :
        /\ Done(p) /\ cmd[p] = "check" /\ arg[p] \in ValidArgs
        /\ lastOp[arg[p]] = "remove"
        /\ outcome[p].msg = "is not in the blocklist"
        /\ file.data # <<>>

\* C3: when the firewall command is about to be invoked, the file holds the
\* new list, written in full; every firewall call of an invocation comes right
\* after its successful write, and an invocation whose write failed invokes no
\* firewall command.
C3_SaveBeforeFirewall ==
    \A p \in Procs :
        /\ pc[p] = "ufw" =>
              /\ file = ListFile(blocklist[p])
              /\ effects[p] = <<WriteEffect("ok")>>
        /\ \A i \in UfwCalls(p) : i > 1 /\ effects[p][i - 1] = WriteEffect("ok")
        /\ FailedWrites(p) # {} => UfwCalls(p) = {}
        /\ (Done(p) /\ outcome[p].msg = "OSError") =>
              FailedWrites(p) # {} /\ UfwCalls(p) = {}

\* C3 witness: an invocation wrote the list and then invoked the firewall.
C3_Witness ==
    \E p \in Procs :
        /\ Done(p)
        /\ Len(effects[p]) = 2
        /\ effects[p][1] = WriteEffect("ok")
        /\ effects[p][2].op = "ufw"

\* C4: after a firewall command that exited non-zero, the change of the list
\* stays persisted (the address is in the file after an add, absent after a
\* remove) and the report is the failure message with the text of the
\* command's standard error (stripped of surrounding whitespace).
C4_FirewallFailureIsNotRolledBack ==
    \A p \in Procs :
        \A i \in UfwCalls(p) :
            (Done(p) /\ effects[p][i].res.spawned /\ effects[p][i].res.rc # 0) =>
                /\ file.kind = "list"
                /\ cmd[p] = "add" => InList(arg[p], file.data)
                /\ cmd[p] = "remove" => ~InList(arg[p], file.data)
                /\ outcome[p] = Report(IF cmd[p] = "add" THEN "Failed to block IP"
                                       ELSE "Failed to unblock IP",
                                       Strip(effects[p][i].res.stderr))

\* C4 witness: an add whose firewall command failed; the address is in the file.
C4_Witness ==
    \E p \in Procs :
        /\ Done(p) /\ cmd[p] = "add"
        /\ outcome[p].msg = "Failed to block IP"
        /\ outcome[p].text = <<"b","a","d">>
        /\ InList(arg[p], file.data)

\* C5: a save that fails leaves a well-formed file behind (the previous
\* content), which a later load can read.
C5_FailedSaveLeavesFileWellFormed ==
    \A p \in Procs :
        (Done(p) /\ outcome[p].msg = "OSError") => file.kind # "corrupt"

\* C6: add, remove and check of a string that is no IPv4 or IPv6 address
\* report the validation error; they write no file and invoke no firewall
\* command, and no step of them changes the file or the list in memory.
C6_MalformedInputChangesNothing ==
    /\ [](\A p \in Procs :
            (/\ Done(p) /\ Loaded(p)
             /\ arg[p] \in Malformed
             /\ (cmd[p] = "check" \/ (cmd[p] \in {"add", "remove"} /\ euid[p] = 0)))
            => /\ outcome[p] = Report("Invalid IP address", arg[p])
               /\ effects[p] = <<>>
               /\ blocklist[p] = file.data)
    /\ [][\A p \in Procs :
            (/\ pc[p] \in {"main", "op"}
             /\ arg[p] \in Malformed
             /\ cmd[p] \in {"add", "remove", "check"})
            => /\ file' = file
               /\ blocklist'[p] = blocklist[p]
               /\ effects'[p] = <<>>
               /\ pc'[p] \in {"main", "op", "done"}]_vars

\* C6 witness: add of "not-an-ip" by root was refused while the file holds a list.
C6_Witness ==
    \E p \in Procs :
        /\ Done(p) /\ cmd[p] = "add" /\ euid[p] = 0
        /\ arg[p] = NOT_AN_IP
        /\ outcome[p].msg = "Invalid IP address"
        /\ file.kind = "list" /\ file.data # <<>>

\* C7: every entry of the list is the canonical form of its address: no two
\* entries of the persisted list are spellings of the same address.
C7_EntriesAreCanonical ==
    file.kind = "list" =>
        \A i, j \in 1..Len(file.data) :
            ip_address(file.data[i]) = ip_address(file.data[j]) => i = j

\* C8: add or remove without root ends with the privilege error before any
\* change: nothing written, no firewall command, the list in memory is the
\* list of the file; check and list run to completion whatever the user.
C8_MutatingCommandsNeedRoot ==
    \A p \in Procs :
        /\ (Done(p) /\ Loaded(p) /\ cmd[p] \in {"add", "remove"} /\ euid[p] # 0) =>
              /\ outcome[p] = Report("must be run as root", <<>>)
              /\ effects[p] = <<>>
              /\ blocklist[p] = file.data
        /\ (Done(p) /\ Loaded(p) /\ cmd[p] = "check") =>
              outcome[p].msg \in {"is in the blocklist", "is not in the blocklist",
                                  "Invalid IP address"}
        /\ (Done(p) /\ Loaded(p) /\ cmd[p] = "list") =>
              outcome[p].msg \in {"Blocked IPs:", "Blocklist is empty."}

\* C8 witness: add of a valid address that is not listed, without root, while
\* the file holds a list.
C8_Witness ==
    \E p \in Procs :
        /\ Done(p) /\ cmd[p] = "add" /\ euid[p] # 0
        /\ arg[p] \in ValidArgs
        /\ outcome[p].msg = "must be run as root"
        /\ file.kind = "list" /\ file.data # <<>> /\ ~InList(arg[p], file.data)

\* C9: an invocation calls the firewall at most once, only as the second
\* effect of a root add (deny from <ip>) or remove (--force delete deny from
\* <ip>) of a valid address after the successful write, and always after such
\* a write; add_ip / remove_ip go on to the write exactly when the address is
\* valid and absent (add) or present (remove); every other outcome (already
\* in the list, not in the list, check, list, a refused input or user) leaves
\* no write and no firewall call.
C9_FirewallCalledOnceExactlyWhenNeeded ==
    /\ [](\A p \in Procs :
            /\ Cardinality(UfwCalls(p)) <= 1
            /\ \A i \in UfwCalls(p) :
                  /\ i = 2 /\ effects[p][1] = WriteEffect("ok")
                  /\ cmd[p] \in {"add", "remove"} /\ euid[p] = 0
                  /\ arg[p] \in ValidArgs
                  /\ cmd[p] = "add" =>
                        effects[p][i].argv = <<"ufw", "deny", "from", arg[p]>>
                  /\ cmd[p] = "remove" =>
                        effects[p][i].argv =
                            <<"ufw", "--force", "delete", "deny", "from", arg[p]>>
            /\ (Done(p) /\ effects[p] # <<>> /\ effects[p][1] = WriteEffect("ok")) =>
                  UfwCalls(p) = {2}
            /\ (Done(p) /\ outcome[p].msg \notin
                    {"has been blocked", "has been unblocked", "Failed to block IP",
                     "Failed to unblock IP", "FileNotFoundError", "OSError"}) =>
                  effects[p] = <<>>
            /\ cmd[p] \in {"check", "list", "none"} => effects[p] = <<>>
            /\ (Done(p) /\ outcome[p].msg = "is already in the blocklist") =>
                  InList(arg[p], file.data)
            /\ (Done(p) /\ cmd[p] = "remove"
                        /\ outcome[p].msg = "is not in the blocklist") =>
                  ~InList(arg[p], file.data))
    /\ [][\A p \in Procs :
            (pc[p] = "op" /\ pc'[p] # "op") =>
                (pc'[p] = "save" <=>
                    /\ arg[p] \in ValidArgs
                    /\ cmd[p] = "add" => ~InList(arg[p], file.data)
                    /\ cmd[p] = "remove" => InList(arg[p], file.data))]_vars

\* C9 witness: a remove of a listed address: one write, then one firewall call.
C9_Witness ==
    \E p \in Procs :
        /\ Done(p) /\ cmd[p] = "remove"
        /\ Len(effects[p]) = 2
        /\ effects[p][2].argv = <<"ufw", "--force", "delete", "deny", "from", arg[p]>>

\* C10: invocations running at once are not kept apart: a successful save
\* replaces the file by the list of the saving invocation, as it loaded it
\* plus or minus its own address, so whatever another invocation wrote since
\* that load is lost.
C10_SaveOverwritesWhatOthersWrote ==
    [][\A p \in Procs :
          (pc[p] = "save" /\ pc'[p] = "ufw") =>
              /\ file' = ListFile(blocklist[p])
              /\ \A x \in ValidArgs :
                    (InList(x, file.data) /\ ~InList(x, blocklist[p]))
                        => ~InList(x, file'.data)]_vars

\* C10 witness: two add invocations for different valid addresses both
\* reported success, and the persisted list lacks one of the two addresses.
C10_Witness ==
    \E p, q \in Procs :
        /\ p # q
        /\ Done(p) /\ Done(q)
        /\ cmd[p] = "add" /\ cmd[q] = "add"
        /\ arg[p] # arg[q]
        /\ outcome[p].msg = "has been blocked"
        /\ outcome[q].msg = "has been blocked"
        /\ file.kind = "list"
        /\ ~InList(arg[p], file.data)
        /\ InList(arg[q], file.data)

====
